---- MODULE Spec2Model ----
(***************************************************************************)
(* Concurrent Postman-collection runner (src/index.js).  The file holds    *)
(* two near-identical programs: variant 1 (lines 1-228) and variant 2      *)
(* (lines 230-537).  Both are modelled; the variable "variant" says which  *)
(* one a behaviour runs.                                                   *)
(*                                                                         *)
(* JavaScript values: strings are TLA+ strings, HTTP status codes are      *)
(* written as their decimal text ("200"), the value undefined is the       *)
(* string UNDEFINED, objects are records with every field present (an      *)
(* absent field holds UNDEFINED).  Time is counted in microseconds.        *)
(***************************************************************************)
EXTENDS Integers, Sequences, FiniteSets, TLC

\* ------------------------------------------------------------------ bounds
\* Largest batch (number of request descriptors in the collection).
MaxRequests == 2
\* Microseconds that pass during one step (a header assembly, a transport call).
TickMicros == 4

\* ------------------------------------------------------------- JS values
UNDEFINED == "<undefined>"

\* The value null where a string may stand (request.body).
JSNULL == "<null>"

\* JS truthiness of a string, undefined or null.
Truthy(v) == v \notin {UNDEFINED, JSNULL, ""}

\* `${v}` inside a template literal.
Str(v) == IF v = UNDEFINED THEN "undefined" ELSE v

\* An error object: message, status, response {status, data}, code.
NoResponse == [present |-> FALSE, status |-> UNDEFINED, data |-> UNDEFINED]

NoError == [message |-> UNDEFINED, status |-> UNDEFINED, response |-> NoResponse, code |-> UNDEFINED]

\* The TypeError raised by reading a property of undefined.
TypeError(prop) ==
    [message |-> "Cannot read properties of undefined (reading '" \o prop \o "')",
     status |-> UNDEFINED, response |-> NoResponse, code |-> UNDEFINED]

\* ------------------------------------------------------ auth descriptors
NoCred == [username |-> UNDEFINED, password |-> UNDEFINED]

\* auth: null
NULL == [type |-> "<null>", apikey |-> <<>>, bearer |-> <<>>, basic |-> NoCred]

Entry(k, v) == [key |-> k, value |-> v]

ApiKeyAuth(entries) == [type |-> "apikey", apikey |-> entries, bearer |-> <<>>, basic |-> NoCred]

BearerAuth(entries) == [type |-> "bearer", apikey |-> <<>>, bearer |-> entries, basic |-> NoCred]

BasicAuth(u, p) ==
    [type |-> "basic", apikey |-> <<>>, bearer |-> <<>>, basic |-> [username |-> u, password |-> p]]

OtherAuth(t) == [type |-> t, apikey |-> <<>>, bearer |-> <<>>, basic |-> NoCred]

\* ----------------------------------------------------------------- headers
EmptyHeaders == [k \in {} |-> ""]

\* headers[k] = v
SetHeader(h, k, v) == [x \in (DOMAIN h) \cup {k} |-> IF x = k THEN v ELSE h[x]]

\* { ...a, ...b }
Spread(a, b) == [x \in (DOMAIN a) \cup (DOMAIN b) |-> IF x \in DOMAIN b THEN b[x] ELSE a[x]]

COMMON_HEADERS ==
    [x \in {"Content-Type", "Accept", "Cache-Control", "Accept-Encoding", "Connection"} |->
        CASE x = "Content-Type" -> "application/json"
          [] x = "Accept" -> "*/*"
          [] x = "Cache-Control" -> "no-cache"
          [] x = "Accept-Encoding" -> "gzip, deflate, br"
          [] x = "Connection" -> "keep-alive"]

\* apikey.find((entry) => entry.key === k)?.value
RECURSIVE FindValue(_, _)
FindValue(entries, k) ==
    IF entries = <<>> THEN UNDEFINED
    ELSE IF Head(entries).key = k THEN Head(entries).value
    ELSE FindValue(Tail(entries), k)

\* Buffer.from(s).toString('base64') on the credentials the model draws.
Base64(s) ==
    CASE s = "u:p" -> "dTpw"
      [] s = "u:undefined" -> "dTp1bmRlZmluZWQ="
      [] s = "undefined:p" -> "dW5kZWZpbmVkOnA="
      [] s = "undefined:undefined" -> "dW5kZWZpbmVkOnVuZGVmaW5lZA=="

\* The outcome of a synchronous call that works on a header object: whether it
\* threw, the error, the header object as it stands, whether console.warn ran.
Returned(h, w) == [threw |-> FALSE, error |-> NoError, headers |-> h, warned |-> w]

Thrown(h, e) == [threw |-> TRUE, error |-> e, headers |-> h, warned |-> FALSE]

\* Mutant: the `in` entry is not looked at.
apikeyHandlerAnyLocation(headers, auth) ==
    LET keyField == FindValue(auth.apikey, "key")
        valueField == FindValue(auth.apikey, "value")
    IN IF Truthy(keyField) /\ Truthy(valueField)
       THEN Returned(SetHeader(headers, keyField, valueField), FALSE)
       ELSE Returned(headers, TRUE)

\* authHandlers.apikey
apikeyHandler(headers, auth) ==
    LET keyField == FindValue(auth.apikey, "key")
        valueField == FindValue(auth.apikey, "value")
        inField == FindValue(auth.apikey, "in")
    IN IF Truthy(keyField) /\ Truthy(valueField) /\ inField = "header"
       THEN Returned(SetHeader(headers, keyField, valueField), FALSE)
       ELSE Returned(headers, TRUE)

\* Mutant: the bearer handler leaves an Authorization header that is already
\* there.
bearerHandlerKeepsExisting(headers, auth) ==
    IF auth.bearer = <<>>
    THEN Thrown(headers, TypeError("value"))
    ELSE IF "Authorization" \in DOMAIN headers
         THEN Returned(headers, FALSE)
         ELSE Returned(SetHeader(headers, "Authorization", "Bearer " \o Str(auth.bearer[1].value)), FALSE)

\* authHandlers.bearer
bearerHandler(headers, auth) ==
    IF auth.bearer = <<>>
    THEN Thrown(headers, TypeError("value"))
    ELSE Returned(SetHeader(headers, "Authorization", "Bearer " \o Str(auth.bearer[1].value)), FALSE)

\* authHandlers.basic
basicHandler(headers, auth) ==
    Returned(SetHeader(headers, "Authorization",
                       "Basic " \o Base64(Str(auth.basic.username) \o ":" \o Str(auth.basic.password))),
             FALSE)

\* The own keys of the authHandlers table.
HandlerTypes == {"apikey", "bearer", "basic"}

\* authHandlers is an object literal, so authHandlers[auth.type] also finds
\* the members of Object.prototype.  Called as handler(auth), Object and
\* toString return ...
InheritedReturning == {"constructor", "toString"}

\* ... these four need a receiver and throw without one ...
InheritedThrowing == {"hasOwnProperty", "valueOf", "isPrototypeOf", "propertyIsEnumerable"}

NoReceiver ==
    [message |-> "Cannot convert undefined or null to object",
     status |-> UNDEFINED, response |-> NoResponse, code |-> UNDEFINED]

\* ... and __proto__ is Object.prototype itself: truthy, and not a function.
NotCallable ==
    [message |-> "handler is not a function",
     status |-> UNDEFINED, response |-> NoResponse, code |-> UNDEFINED]

applyAuth(headers, auth) ==
    IF auth = NULL THEN Returned(headers, FALSE)
    ELSE IF auth.type \in HandlerTypes
    THEN CASE auth.type = "apikey" -> apikeyHandler(headers, auth)
           [] auth.type = "bearer" -> bearerHandler(headers, auth)
           [] auth.type = "basic" -> basicHandler(headers, auth)
    ELSE IF auth.type \in InheritedReturning THEN Returned(headers, FALSE)
    ELSE IF auth.type \in InheritedThrowing THEN Thrown(headers, NoReceiver)
    ELSE IF auth.type = "__proto__" THEN Thrown(headers, NotCallable)
    ELSE Returned(headers, TRUE)

\* requestHeaders.reduce((acc, {key, value}) => { acc[key] = value; return acc }, {})
RECURSIVE reduceHeaders(_, _)
reduceHeaders(requestHeaders, acc) ==
    IF requestHeaders = <<>> THEN acc
    ELSE reduceHeaders(Tail(requestHeaders),
                       SetHeader(acc, Head(requestHeaders).key, Head(requestHeaders).value))

\* Mutant: globalAuth || requestAuth.
effectiveAuthGlobalFirst(requestAuth, globalAuth) == IF globalAuth # NULL THEN globalAuth ELSE requestAuth

\* requestAuth || globalAuth
effectiveAuth(requestAuth, globalAuth) == IF requestAuth # NULL THEN requestAuth ELSE globalAuth

prepareHeaders(requestHeaders, requestAuth, globalAuth) ==
    applyAuth(reduceHeaders(requestHeaders, EmptyHeaders), effectiveAuth(requestAuth, globalAuth))

\* ------------------------------------------------------- request executor
\* The text `${ms.toFixed(2)} ms` of an elapsed time, kept as the number of
\* hundredths of a millisecond it prints (rounded half up from microseconds).
toFixed2(micros) == (micros + 5) \div 10

timeTakenText(startTime, endTime) == [defined |-> TRUE, hundredths |-> toFixed2(endTime - startTime)]

\* A result record without a timeTaken field.
NoTime == [defined |-> FALSE, hundredths |-> 0]

\* request.method.toLowerCase()
toLowerCase(m) ==
    CASE m = "GET" -> "get"
      [] m = "POST" -> "post"

\* Mutant: Object.assign(COMMON_HEADERS, headers), which writes the prepared
\* headers into the shared object and sends that object.
spreadCommonInPlace(common, headers) ==
    [shared |-> Spread(common, headers), merged |-> Spread(common, headers)]

\* { ...COMMON_HEADERS, ...headers }: a new object is built from the shared
\* one, which is only read.
spreadCommon(common, headers) == [shared |-> common, merged |-> Spread(common, headers)]

\* Mutant: the baseline is spread over the prepared headers.
axiosConfigBaselineLast(v, request, headers, common) ==
    [method |-> toLowerCase(request.method),
     url |-> request.url,
     headers |-> IF v = 1 THEN headers ELSE Spread(headers, common),
     data |-> IF Truthy(request.body) THEN request.body ELSE JSNULL]

\* The config object handed to axios.
axiosConfig(v, request, headers, common) ==
    [method |-> toLowerCase(request.method),
     url |-> request.url,
     headers |-> IF v = 1 THEN headers ELSE spreadCommon(common, headers).merged,
     data |-> IF Truthy(request.body) THEN request.body ELSE JSNULL]

NoConfig == [method |-> UNDEFINED, url |-> UNDEFINED, headers |-> EmptyHeaders, data |-> UNDEFINED]

\* The record executeRequest returns: fields a variant does not set are UNDEFINED.
UndefinedResult ==
    [name |-> UNDEFINED, status |-> UNDEFINED, data |-> UNDEFINED, error |-> UNDEFINED,
     statusCode |-> UNDEFINED, timeTaken |-> NoTime]

\* The object returned at the end of the try block.
successResult(v, request, response, startTime, endTime) ==
    [name |-> request.name,
     status |-> "success",
     data |-> response.data,
     error |-> UNDEFINED,
     statusCode |-> IF v = 1 THEN UNDEFINED ELSE response.status,
     timeTaken |-> timeTakenText(startTime, endTime)]

\* error?.status || error?.response?.status || error?.code
errorStatusCode(error) ==
    IF Truthy(error.status) THEN error.status
    ELSE IF error.response.present /\ Truthy(error.response.status) THEN error.response.status
    ELSE error.code

\* The object returned by the catch block.
errorResult(v, request, error, startTime, endTime) ==
    [name |-> request.name,
     status |-> "error",
     data |-> IF v = 1 THEN UNDEFINED ELSE error.response.data,
     error |-> error.message,
     statusCode |-> IF v = 1 THEN UNDEFINED ELSE errorStatusCode(error),
     timeTaken |-> IF v = 1 THEN timeTakenText(startTime, endTime) ELSE NoTime]

\* A promise: pending, fulfilled with a value, or rejected with a reason.
Pending == [state |-> "pending", value |-> UndefinedResult, reason |-> NoError]

Fulfilled(value) == [state |-> "fulfilled", value |-> value, reason |-> NoError]

Rejected(reason) == [state |-> "rejected", value |-> UndefinedResult, reason |-> reason]

\* Mutant: no catch, the error rejects the promise.
catchBlockRethrows(v, request, error, startTime, endTime) == Rejected(error)

\* try { ... } catch (error) { return {...} }: how the promise of executeRequest
\* settles when the try block raised `error`.
catchBlock(v, request, error, startTime, endTime) ==
    Fulfilled(errorResult(v, request, error, startTime, endTime))

\* ---------------------------------------------------------------- inputs
Descriptor(name, method, headers, body, auth) ==
    [name |-> name, method |-> method, url |-> "https://api.test/" \o name,
     headers |-> headers, body |-> body, auth |-> auth]

\* Request descriptors as parseCollection builds them (auth: object or null,
\* body: raw text or null, headers: the array of {key, value}).
Catalogue ==
    << Descriptor("plain", "GET", <<>>, JSNULL, NULL),
       Descriptor("login", "POST",
                  <<Entry("Content-Type", "text/plain"), Entry("Authorization", "own")>>, "{}", NULL),
       Descriptor("token", "GET", <<Entry("Authorization", "own")>>, JSNULL,
                  BearerAuth(<<Entry("token", "abc")>>)),
       Descriptor("notoken", "GET", <<>>, JSNULL, BearerAuth(<<>>)),
       Descriptor("novalue", "GET", <<>>, JSNULL, BearerAuth(<<Entry("token", UNDEFINED)>>)),
       Descriptor("key", "GET", <<Entry("X-Api-Key", "old"), Entry("Accept", "a"), Entry("Accept", "b")>>,
                  JSNULL,
                  ApiKeyAuth(<<Entry("value", "k1"), Entry("key", "X-Api-Key"), Entry("in", "header")>>)),
       Descriptor("keyquery", "GET", <<>>, JSNULL,
                  ApiKeyAuth(<<Entry("value", "k1"), Entry("key", "X-Api-Key"), Entry("in", "query")>>)),
       Descriptor("keynoname", "GET", <<>>, JSNULL,
                  ApiKeyAuth(<<Entry("value", "k1"), Entry("in", "header")>>)),
       Descriptor("keyempty", "POST", <<>>, "{}",
                  ApiKeyAuth(<<Entry("value", ""), Entry("key", "X-Api-Key"), Entry("in", "header")>>)),
       Descriptor("keynoin", "GET", <<>>, JSNULL,
                  ApiKeyAuth(<<Entry("value", "k1"), Entry("key", "X-Api-Key")>>)),
       Descriptor("basic", "GET", <<>>, JSNULL, BasicAuth("u", "p")),
       Descriptor("oauth", "GET", <<>>, JSNULL, OtherAuth("oauth2")),
       Descriptor("protoauth", "GET", <<Entry("Accept", "a")>>, JSNULL, OtherAuth("hasOwnProperty")),
       Descriptor("keyaccept", "GET",
                  <<Entry("Content-Type", "text/plain"), Entry("X-Trace", "a"), Entry("X-Trace", "b"),
                    Entry("Accept", "a")>>,
                  JSNULL,
                  ApiKeyAuth(<<Entry("value", "k2"), Entry("key", "Accept"), Entry("in", "header")>>)) >>

\* collection.auth || null
GlobalAuths ==
    { NULL,
      BearerAuth(<<Entry("token", "gtok")>>),
      BearerAuth(<<Entry("token", UNDEFINED)>>),
      ApiKeyAuth(<<Entry("key", "X-Global"), Entry("value", "g1"), Entry("in", "header")>>) }

\* The batches drawn from the catalogue: n descriptors starting at one entry,
\* either the same one repeated (equal names) or consecutive ones.
Batches ==
    { [j \in 1..n |-> Catalogue[((o + (j - 1) * s) % Len(Catalogue)) + 1]] :
        n \in 0..MaxRequests, o \in 0..(Len(Catalogue) - 1), s \in {0, 1} }

\* What the transport can answer: a response {status, data} ...
Responses == { [status |-> "200", data |-> "ok"], [status |-> "404", data |-> "missing"] }

\* ... or an error: a network error (a code, no status) or an HTTP error
\* (status, response and code).
TransportErrors ==
    { [message |-> "Network Error", status |-> UNDEFINED, response |-> NoResponse, code |-> "ERR_NETWORK"],
      [message |-> "Request failed with status code 500", status |-> "500",
       response |-> [present |-> TRUE, status |-> "500", data |-> "oops"], code |-> "ERR_BAD_RESPONSE"] }

NoReply == [status |-> UNDEFINED, data |-> UNDEFINED]

\* ----------------------------------------------------------------- state
VARIABLES
    variant,      \* 1 or 2: which of the two programs of index.js runs
    requests,     \* the descriptor list given to runConcurrentRequests
    globalAuth,   \* globalInfo.auth
    commonHeaders, \* the module-level COMMON_HEADERS object, shared by all calls
    pc,           \* runConcurrentRequests: "map", "await", "done" or "threw"
    next,         \* index the requests.map callback runs for next
    now,          \* performance.now(), in microseconds
    startTime,    \* startTime of each executeRequest call (0 before the call)
    prepared,     \* what prepareHeaders did in each executeRequest call
    transport,    \* each request's axios call: state, config, reply, error, the
                  \* clock when it was made and when it settled, and how many
                  \* times axios was called for the request
    promise,      \* requestPromises
    order,        \* indices of the promises in the order they settled
    report,       \* arguments of the logRequestResult calls, in call order
    summary       \* arguments of the logSummaryReport call

vars ==
    <<variant, requests, globalAuth, commonHeaders, pc, next, now, startTime, prepared, transport, promise,
      order, report, summary>>

N == Len(requests)

Idle ==
    [state |-> "idle", config |-> NoConfig, reply |-> NoReply, error |-> NoError,
     invokedAt |-> 0, settledAt |-> 0, calls |-> 0]

NotPrepared == [called |-> FALSE, threw |-> FALSE, error |-> NoError, headers |-> EmptyHeaders, warned |-> FALSE]

NoSummary ==
    [logged |-> FALSE, totalRequests |-> 0, successCount |-> 0, failureCount |-> 0,
     totalTime |-> 0, avgTime |-> [nan |-> FALSE, num |-> 0, den |-> 1]]

Init ==
    /\ variant \in {1, 2}
    /\ requests \in Batches
    /\ globalAuth \in GlobalAuths
    /\ commonHeaders = COMMON_HEADERS
    /\ pc = "map"
    /\ next = 1
    /\ now = 0
    /\ startTime = [i \in 1..N |-> 0]
    /\ prepared = [i \in 1..N |-> NotPrepared]
    /\ transport = [i \in 1..N |-> Idle]
    /\ promise = [i \in 1..N |-> Pending]
    /\ order = <<>>
    /\ report = <<>>
    /\ summary = NoSummary

\* ------------------------------------------------------- batch coordinator
\* parseFloat of a timeTaken text: the number it starts with, NaN for undefined.
parseFloat(timeTaken) ==
    IF timeTaken.defined THEN [nan |-> FALSE, hundredths |-> timeTaken.hundredths]
    ELSE [nan |-> TRUE, hundredths |-> 0]

\* totalTime += x
plus(totalTime, x) == [nan |-> totalTime.nan \/ x.nan, hundredths |-> totalTime.hundredths + x.hundredths]

\* JSON.stringify(data, null, 2) of a string or undefined.
JSONstringify(data) == IF data = UNDEFINED THEN UNDEFINED ELSE "\"" \o data \o "\""

\* One logRequestResult call: its arguments.
LogEntry(status, statusCode, name, timeTaken, data) ==
    [status |-> status, statusCode |-> statusCode, name |-> name, timeTaken |-> timeTaken, data |-> data]

\* Mutant: the elements in the order the promises settled.
allSettledInSettleOrder(requestPromises, settleOrder) ==
    [i \in DOMAIN requestPromises |->
        IF i <= Len(settleOrder) THEN requestPromises[settleOrder[i]] ELSE requestPromises[i]]

\* The element Promise.allSettled yields for each promise, by input position.
allSettled(requestPromises, settleOrder) == [i \in DOMAIN requestPromises |-> requestPromises[i]]

\* Mutant: resumes as soon as one promise has settled (Promise.race).
joinReadyFirstSettled(requestPromises) ==
    \/ DOMAIN requestPromises = {}
    \/ \E i \in DOMAIN requestPromises : requestPromises[i].state # "pending"

\* Mutant: resumes only when every request succeeded.
joinReadyAllSucceeded(requestPromises) ==
    \A i \in DOMAIN requestPromises :
        requestPromises[i].state = "fulfilled" /\ requestPromises[i].value.status = "success"

\* `await Promise.allSettled(...)` resumes once no promise is pending.
joinReady(requestPromises) == \A i \in DOMAIN requestPromises : requestPromises[i].state # "pending"

\* The test of the if inside results.forEach.
isSuccess(v, result) ==
    IF v = 1 THEN result.state = "fulfilled" ELSE result.value.status = "success"

\* The then-branch of the loop body.
onSuccess(v, acc, result, name) ==
    [acc EXCEPT !.successCount = @ + 1,
                !.totalTime = plus(@, parseFloat(result.value.timeTaken)),
                !.log = Append(@, LogEntry("success", result.value.statusCode, name,
                                           result.value.timeTaken, JSONstringify(result.value.data)))]

\* Mutant: the else-branch without failureCount++.
onFailureUncounted(v, acc, result, name) ==
    [acc EXCEPT !.log = Append(@, LogEntry("error", result.value.statusCode, name, NoTime,
                                           JSONstringify(result.value.data)))]

\* The else-branch of the loop body.
onFailure(v, acc, result, name) ==
    [acc EXCEPT !.failureCount = @ + 1,
                !.log = Append(@, IF v = 1
                                  THEN LogEntry("error", UNDEFINED, name, NoTime, UNDEFINED)
                                  ELSE LogEntry("error", result.value.statusCode, name, NoTime,
                                                JSONstringify(result.value.data)))]

\* results.forEach((result, index) => ...), from position index on.  Variant 2
\* reads result.value.status, a TypeError when the promise was rejected.
RECURSIVE forEach(_, _, _, _, _)
forEach(v, results, reqs, index, acc) ==
    IF index > Len(results) \/ acc.threw THEN acc
    ELSE LET result == results[index]
             name == reqs[index].name
         IN forEach(v, results, reqs, index + 1,
                    IF v = 2 /\ result.state # "fulfilled" THEN [acc EXCEPT !.threw = TRUE]
                    ELSE IF isSuccess(v, result) THEN onSuccess(v, acc, result, name)
                    ELSE onFailure(v, acc, result, name))

\* let successCount = 0; let failureCount = 0; let totalTime = 0;
LoopStart ==
    [successCount |-> 0, failureCount |-> 0, totalTime |-> [nan |-> FALSE, hundredths |-> 0],
     log |-> <<>>, threw |-> FALSE]

\* Mutant: totalTime / successCount without the test, NaN for 0 / 0.
avgTimeUnguarded(successCount, totalTime) ==
    [nan |-> totalTime.nan \/ successCount = 0, num |-> totalTime.hundredths, den |-> successCount]

\* successCount > 0 ? totalTime / successCount : 0, kept as a fraction of
\* hundredths of a millisecond.
avgTime(successCount, totalTime) ==
    IF successCount > 0
    THEN [nan |-> totalTime.nan, num |-> totalTime.hundredths, den |-> successCount]
    ELSE [nan |-> FALSE, num |-> 0, den |-> 1]

\* ----------------------------------------------------------------- actions
\* One call of the requests.map callback: executeRequest runs synchronously up
\* to `await axios(...)`, or to its return when prepareHeaders throws.
DispatchStep(i) ==
    LET request == requests[i]
        h == prepareHeaders(request.headers, request.auth, globalAuth)
        endTime == now + TickMicros
    IN /\ startTime' = [startTime EXCEPT ![i] = now]
       /\ prepared' = [prepared EXCEPT ![i] =
              [called |-> TRUE, threw |-> h.threw, error |-> h.error, headers |-> h.headers,
               warned |-> h.warned]]
       /\ IF h.threw
          THEN /\ promise' = [promise EXCEPT ![i] = catchBlock(variant, request, h.error, now, endTime)]
               /\ order' = Append(order, i)
               /\ UNCHANGED transport
          ELSE /\ transport' = [transport EXCEPT ![i] =
                     [state |-> "inflight", config |-> axiosConfig(variant, request, h.headers, commonHeaders),
                      reply |-> NoReply, error |-> NoError, invokedAt |-> endTime, settledAt |-> 0,
                      calls |-> transport[i].calls + 1]]
               /\ UNCHANGED <<promise, order>>
       /\ commonHeaders' = IF h.threw \/ variant = 1 THEN commonHeaders
                           ELSE spreadCommon(commonHeaders, h.headers).shared
       /\ now' = endTime
       /\ next' = i + 1
       /\ UNCHANGED <<variant, requests, globalAuth, pc, report, summary>>

\* Mutant: each call is awaited before the next one is made.
DispatchSerial ==
    /\ pc = "map"
    /\ next <= N
    /\ \A j \in 1..(next - 1) : promise[j].state # "pending"
    /\ DispatchStep(next)

Dispatch ==
    /\ pc = "map"
    /\ next <= N
    /\ DispatchStep(next)

\* requests.map has returned; runConcurrentRequests reaches its await.
StartAwait ==
    /\ pc = "map"
    /\ next > N
    /\ pc' = "await"
    /\ UNCHANGED <<variant, requests, globalAuth, commonHeaders, next, now, startTime, prepared, transport,
                   promise, order, report, summary>>

\* axios resolves for request i: the rest of the try block of executeRequest.
\* A continuation runs only once the synchronous code of the coordinator has
\* yielded, which it does at its await alone.
TransportRespondTo(i) ==
    /\ pc = "await"
    /\ transport[i].state = "inflight"
    /\ \E response \in Responses :
          LET endTime == now + TickMicros
          IN /\ transport' = [transport EXCEPT ![i].state = "responded", ![i].reply = response,
                                               ![i].settledAt = endTime]
             /\ promise' = [promise EXCEPT ![i] =
                    Fulfilled(successResult(variant, requests[i], response, startTime[i], endTime))]
             /\ order' = Append(order, i)
             /\ now' = endTime
    /\ UNCHANGED <<variant, requests, globalAuth, commonHeaders, pc, next, startTime, prepared, report, summary>>

TransportRespond == \E i \in 1..N : TransportRespondTo(i)

\* Mutant: the catch block calls axios once more before it gives up.
TransportThrowRetries(i) ==
    /\ pc = "await"
    /\ transport[i].state = "inflight"
    /\ \E error \in TransportErrors :
          LET endTime == now + TickMicros
          IN /\ IF transport[i].calls < 2
                THEN /\ transport' = [transport EXCEPT ![i].calls = @ + 1, ![i].invokedAt = endTime]
                     /\ UNCHANGED <<promise, order>>
                ELSE /\ transport' = [transport EXCEPT ![i].state = "threw", ![i].error = error,
                                                       ![i].settledAt = endTime]
                     /\ promise' = [promise EXCEPT ![i] =
                            catchBlock(variant, requests[i], error, startTime[i], endTime)]
                     /\ order' = Append(order, i)
             /\ now' = endTime
    /\ UNCHANGED <<variant, requests, globalAuth, commonHeaders, pc, next, startTime, prepared, report, summary>>

\* axios rejects for request i: the catch block of executeRequest.
TransportThrowTo(i) ==
    /\ pc = "await"
    /\ transport[i].state = "inflight"
    /\ \E error \in TransportErrors :
          LET endTime == now + TickMicros
          IN /\ transport' = [transport EXCEPT ![i].state = "threw", ![i].error = error,
                                               ![i].settledAt = endTime]
             /\ promise' = [promise EXCEPT ![i] =
                    catchBlock(variant, requests[i], error, startTime[i], endTime)]
             /\ order' = Append(order, i)
             /\ now' = endTime
    /\ UNCHANGED <<variant, requests, globalAuth, commonHeaders, pc, next, startTime, prepared, report, summary>>

TransportThrow == \E i \in 1..N : TransportThrowTo(i)

\* Promise.allSettled resolves; the rest of runConcurrentRequests runs: the
\* forEach loop, the logRequestResult calls and logSummaryReport.
Summarise ==
    /\ pc = "await"
    /\ joinReady(promise)
    /\ LET results == allSettled(promise, order)
           acc == forEach(variant, results, requests, 1, LoopStart)
       IN IF acc.threw
          THEN /\ pc' = "threw"
               /\ UNCHANGED <<report, summary>>
          ELSE /\ pc' = "done"
               /\ report' = acc.log
               /\ summary' = [logged |-> TRUE,
                              totalRequests |-> Len(requests),
                              successCount |-> acc.successCount,
                              failureCount |-> acc.failureCount,
                              totalTime |-> now - 0,
                              avgTime |-> avgTime(acc.successCount, acc.totalTime)]
    /\ UNCHANGED <<variant, requests, globalAuth, commonHeaders, next, now, startTime, prepared, transport,
                   promise, order>>

Next ==
    \/ Dispatch
    \/ StartAwait
    \/ TransportRespond
    \/ TransportThrow
    \/ Summarise

Spec == Init /\ [][Next]_vars

\* The transport settles every call it was given, and the event loop runs
\* every continuation that is ready.
FairSpec ==
    /\ Spec
    /\ WF_vars(Dispatch)
    /\ WF_vars(StartAwait)
    /\ WF_vars(TransportRespond \/ TransportThrow)
    /\ WF_vars(Summarise)

\* ------------------------------------------------------------ properties
Threw == {i \in 1..N : transport[i].state = "threw"}

Responded == {i \in 1..N : transport[i].state = "responded"}

\* C1: when the transport throws for exactly one request of a finished batch
\* and answers all the others, the summary counts one failure and N - 1
\* successes, and the request reported as failed is the one whose call threw.
C1_FailureIsolation ==
    (pc = "done" /\ Cardinality(Threw) = 1 /\ Threw \cup Responded = 1..N) =>
        /\ summary.failureCount = 1
        /\ summary.successCount = N - 1
        /\ \A i \in 1..N : (report[i].status = "error") <=> (i \in Threw)

\* C2: in a finished batch the i-th reported result has the name of the i-th
\* descriptor and carries what the execution of that descriptor produced (its
\* status code, its data and, for a result reported as a success, its elapsed
\* time), in whatever order the transport calls settled.
C2_OrderPreserved ==
    pc = "done" =>
        /\ Len(report) = N
        /\ \A i \in 1..N :
              /\ report[i].name = requests[i].name
              /\ report[i].statusCode = promise[i].value.statusCode
              /\ report[i].data = JSONstringify(promise[i].value.data)
              /\ report[i].status = "success" => report[i].timeTaken = promise[i].value.timeTaken

\* A finished batch of two differently named requests, the second of which
\* settled first.
C2_Witness ==
    /\ pc = "done"
    /\ N = 2
    /\ order = <<2, 1>>
    /\ requests[1].name # requests[2].name
    /\ report[1].timeTaken # report[2].timeTaken

\* C3: when the summary is reported, successCount + failureCount equals
\* totalRequests, the number of descriptors and the number of reported results.
C3_CountsAddUp ==
    pc = "done" =>
        /\ summary.logged
        /\ summary.successCount + summary.failureCount = summary.totalRequests
        /\ summary.totalRequests = N
        /\ Len(report) = N

\* A finished batch counted as one success and one failure.
C3_Witness ==
    /\ pc = "done"
    /\ N = 2
    /\ summary.successCount = 1
    /\ summary.failureCount = 1

\* C4: the summary exists only in states where every request has settled; a
\* request that is in flight stays pending until its own transport call
\* settles and, once the coordinator waits, can settle whatever became of the
\* other requests.
C4_Barrier ==
    /\ (pc \in {"done", "threw"} \/ summary.logged) =>
          \A i \in 1..N : promise[i].state # "pending" /\ transport[i].state # "inflight"
    /\ \A i \in 1..N :
          transport[i].state = "inflight" =>
              /\ promise[i].state = "pending"
              /\ pc \in {"map", "await"}
              /\ pc = "await" => ENABLED TransportRespondTo(i)

\* A request failed first while another one was still in flight, the other one
\* then got its response, and the batch finished.
C4_Witness ==
    /\ pc = "done"
    /\ N = 2
    /\ Len(order) = 2
    /\ transport[order[1]].state = "threw"
    /\ transport[order[2]].state = "responded"
    /\ promise[order[2]].value.status = "success"

\* C5: no promise of executeRequest is ever rejected; a request whose header
\* assembly or transport call raised an error has a fulfilled promise holding a
\* record with status "error", its own name and the error's message, and no
\* other request has such a record.
C5_NeverRejects ==
    \A i \in 1..N :
        /\ promise[i].state # "rejected"
        /\ (prepared[i].threw \/ transport[i].state = "threw") =>
              /\ promise[i].state = "fulfilled"
              /\ promise[i].value.status = "error"
              /\ promise[i].value.name = requests[i].name
              /\ promise[i].value.error =
                     (IF prepared[i].threw THEN prepared[i].error.message ELSE transport[i].error.message)
        /\ promise[i].value.status = "error" => (prepared[i].threw \/ transport[i].state = "threw")

\* One request failed in header assembly, another in the transport, and both
\* promises are fulfilled.
C5_Witness ==
    \E i, j \in 1..N :
        /\ prepared[i].threw
        /\ transport[j].state = "threw"
        /\ promise[i].state = "fulfilled"
        /\ promise[j].state = "fulfilled"

\* C6: the map callback never waits for an earlier request (it can run
\* whenever a descriptor is left), no transport call settles before the map has
\* gone through every descriptor, and once the coordinator waits every request
\* has been dispatched: each one whose header assembly succeeded has had its
\* transport call started.
C6_AllDispatchedAtOnce ==
    /\ (pc = "map" /\ next <= N) => ENABLED Dispatch
    /\ pc = "map" => \A i \in 1..N : transport[i].state \in {"idle", "inflight"}
    /\ pc # "map" =>
          \A i \in 1..N : prepared[i].called /\ (~prepared[i].threw => transport[i].state # "idle")

\* The coordinator waits with the transport calls of a whole batch of two or
\* more requests in flight at the same time.
C6_Witness ==
    /\ pc = "await"
    /\ N >= 2
    /\ \A i \in 1..N : transport[i].state = "inflight" /\ promise[i].state = "pending"

\* C7: when every transport call settles, the batch ends with every request
\* settled and the summary reported, and runConcurrentRequests never ends with
\* an exception.
C7_Terminates ==
    /\ <>(pc = "done" /\ summary.logged /\ \A i \in 1..N : promise[i].state = "fulfilled")
    /\ [](pc # "threw")

\* A finished batch holding a success and a failure.
C7_Witness ==
    /\ pc = "done"
    /\ summary.logged
    /\ \E i, j \in 1..N : promise[i].value.status = "success" /\ promise[j].value.status = "error"

\* The auth descriptor prepareHeaders has to apply for request i according to
\* the precedence rule, and the headers declared by the request.
OwnHeaders(i) == reduceHeaders(requests[i].headers, EmptyHeaders)

\* C8: a request-level auth descriptor, when present, is the one applied and
\* the global one leaves no trace in the headers; the global one is applied
\* only when the request has none; with neither the declared headers pass
\* through unchanged.
C8_AuthPrecedence ==
    \A i \in 1..N :
        prepared[i].called =>
            LET got == [threw |-> prepared[i].threw, error |-> prepared[i].error,
                        headers |-> prepared[i].headers, warned |-> prepared[i].warned]
            IN /\ requests[i].auth # NULL =>
                     /\ got = applyAuth(OwnHeaders(i), requests[i].auth)
                     /\ got = prepareHeaders(requests[i].headers, requests[i].auth, NULL)
               /\ (requests[i].auth = NULL /\ globalAuth # NULL) =>
                     got = applyAuth(OwnHeaders(i), globalAuth)
               /\ (requests[i].auth = NULL /\ globalAuth = NULL) =>
                     got = Returned(OwnHeaders(i), FALSE)

\* A request whose own auth is of an unsupported type ran under a global
\* bearer token: its headers are the declared ones, without Authorization.
C8_Witness ==
    \E i \in 1..N :
        /\ prepared[i].called
        /\ requests[i].auth.type = "oauth2"
        /\ globalAuth = BearerAuth(<<Entry("token", "gtok")>>)
        /\ prepared[i].headers = OwnHeaders(i)
        /\ "Authorization" \notin DOMAIN prepared[i].headers

\* The auth descriptor in force for request i.
AuthOf(i) == IF requests[i].auth # NULL THEN requests[i].auth ELSE globalAuth

\* The value of the entry named k of an apikey array, UNDEFINED without one.
EntryOf(entries, k) ==
    IF \E n \in 1..Len(entries) : entries[n].key = k
    THEN entries[CHOOSE n \in 1..Len(entries) :
                    entries[n].key = k /\ \A m \in 1..(n - 1) : entries[m].key # k].value
    ELSE UNDEFINED

TokenAbsent(auth) == auth.bearer = <<>> \/ auth.bearer[1].value = UNDEFINED

\* C10: a request whose auth in force is Bearer with an absent token ends as a
\* failure without any transport call (no Authorization header made from the
\* missing token is sent), and no other request is affected.
C10_BearerWithoutToken ==
    \A i \in 1..N :
        (prepared[i].called /\ AuthOf(i).type = "bearer" /\ TokenAbsent(AuthOf(i))) =>
            /\ transport[i].state = "idle"
            /\ promise[i].state = "fulfilled"
            /\ promise[i].value.status = "error"

\* C11: a request without auth of its own, run under a global bearer auth
\* whose token is present, is sent with Authorization equal to "Bearer "
\* followed by that token, whatever Authorization its declared headers carry.
C11_InheritedBearer ==
    \A i \in 1..N :
        (/\ prepared[i].called
         /\ requests[i].auth = NULL
         /\ globalAuth.type = "bearer"
         /\ ~TokenAbsent(globalAuth)) =>
            /\ transport[i].state # "idle"
            /\ "Authorization" \in DOMAIN transport[i].config.headers
            /\ transport[i].config.headers["Authorization"] = "Bearer " \o globalAuth.bearer[1].value

\* A request that declares an Authorization header of its own and has no auth
\* was sent under the global token.
C11_Witness ==
    \E i \in 1..N :
        /\ requests[i].auth = NULL
        /\ "Authorization" \in DOMAIN OwnHeaders(i)
        /\ OwnHeaders(i)["Authorization"] = "own"
        /\ globalAuth = BearerAuth(<<Entry("token", "gtok")>>)
        /\ transport[i].state = "inflight"
        /\ transport[i].config.headers["Authorization"] = "Bearer gtok"

\* The keys a header list declares, and the value its last pair for k gives.
Declared(hs) == {hs[n].key : n \in 1..Len(hs)}

LastDeclared(hs, k) ==
    hs[CHOOSE n \in 1..Len(hs) : hs[n].key = k /\ \A m \in (n + 1)..Len(hs) : hs[m].key # k].value

\* What the auth in force for request i writes, seen on an empty map.
AuthSet(i) == applyAuth(EmptyHeaders, AuthOf(i)).headers

\* The baseline layer: COMMON_HEADERS in variant 2; variant 1 has none.
Baseline == IF variant = 2 THEN COMMON_HEADERS ELSE EmptyHeaders

\* C12: the headers sent for a request are the baseline defaults, overridden
\* by the declared headers (of two pairs with one key the later wins),
\* overridden by what the auth in force sets; no other key is sent.
C12_HeaderLayering ==
    \A i \in 1..N :
        transport[i].state # "idle" =>
            LET sent == transport[i].config.headers
                hs == requests[i].headers
            IN /\ DOMAIN sent = (DOMAIN Baseline) \cup Declared(hs) \cup (DOMAIN AuthSet(i))
               /\ \A k \in DOMAIN sent :
                     sent[k] = IF k \in DOMAIN AuthSet(i) THEN AuthSet(i)[k]
                               ELSE IF k \in Declared(hs) THEN LastDeclared(hs, k)
                               ELSE Baseline[k]

\* Variant 2 sent a request whose API key is named Accept: the key overrides
\* the declared Accept and the baseline one, the declared Content-Type
\* overrides the baseline one, the later X-Trace overrides the earlier, and an
\* untouched baseline key is sent as it is.
C12_Witness ==
    \E i \in 1..N :
        /\ variant = 2
        /\ transport[i].state = "inflight"
        /\ requests[i].name = "keyaccept"
        /\ transport[i].config.headers["Accept"] = "k2"
        /\ transport[i].config.headers["Content-Type"] = "text/plain"
        /\ transport[i].config.headers["X-Trace"] = "b"
        /\ transport[i].config.headers["Cache-Control"] = COMMON_HEADERS["Cache-Control"]

\* The sum of the elapsed times, in hundredths of a millisecond, that the
\* results of the requests in S carry.
RECURSIVE SumTimes(_)
SumTimes(S) ==
    IF S = {} THEN 0
    ELSE LET i == CHOOSE x \in S : TRUE
         IN promise[i].value.timeTaken.hundredths + SumTimes(S \ {i})

\* C13: the average reported for a finished batch is the mean of the elapsed
\* times of exactly the requests the transport answered (a failed request
\* adds nothing to the sum and nothing to the divisor), and 0 when the
\* transport answered none.
C13_AverageOverSuccesses ==
    pc = "done" =>
        /\ ~summary.avgTime.nan
        /\ IF Responded = {}
           THEN summary.avgTime.num = 0
           ELSE summary.avgTime.num * Cardinality(Responded) =
                    summary.avgTime.den * SumTimes(Responded)

\* C14: every result executeRequest produces carries an elapsed time, for a
\* failure as for a success, and that elapsed time is the one reported for
\* the request when the batch is finished.
C14_ElapsedAlwaysRecorded ==
    \A i \in 1..N :
        /\ promise[i].state = "fulfilled" => promise[i].value.timeTaken.defined
        /\ pc = "done" =>
              /\ report[i].timeTaken.defined
              /\ report[i].timeTaken = promise[i].value.timeTaken

\* The HTTP status a transport error exposes: its own status field, else its
\* response's status, else none.
ExposedStatus(error) ==
    IF error.status # UNDEFINED THEN error.status
    ELSE IF error.response.present /\ error.response.status # UNDEFINED THEN error.response.status
    ELSE UNDEFINED

\* C15: the result of a request whose transport call raised an error has the
\* error's message as its error text and the HTTP status the error exposes as
\* its status code; when the error exposes no status the status code is
\* absent, not filled with another value of the error.
C15_FailureFields ==
    \A i \in Threw :
        promise[i].state = "fulfilled" =>
            /\ promise[i].value.status = "error"
            /\ promise[i].value.error = transport[i].error.message
            /\ promise[i].value.statusCode = ExposedStatus(transport[i].error)

\* What request i would be sent with if it were the only request: a function
\* of its descriptor, the baseline and the global auth.
SentAlone(i) ==
    axiosConfig(variant, requests[i],
                prepareHeaders(requests[i].headers, requests[i].auth, globalAuth).headers,
                COMMON_HEADERS).headers

\* C16: no step changes the shared baseline object, the global auth or a
\* descriptor, and the headers each request is sent with are those it would
\* be sent with alone, whatever other requests ran before it.
C16_NoSharedMutation ==
    /\ [](/\ commonHeaders = COMMON_HEADERS
          /\ \A i \in 1..N : transport[i].state # "idle" => transport[i].config.headers = SentAlone(i))
    /\ [][/\ commonHeaders' = commonHeaders
          /\ globalAuth' = globalAuth
          /\ requests' = requests]_vars

\* Variant 2 has sent two requests, the first with declared headers and an
\* auth header that the second does not have; the second was sent without
\* them and the baseline object is as it was.
C16_Witness ==
    /\ variant = 2
    /\ N = 2
    /\ transport[1].state # "idle"
    /\ transport[2].state # "idle"
    /\ requests[1].name = "keyaccept"
    /\ requests[2].name = "plain"
    /\ transport[1].config.headers["Accept"] = "k2"
    /\ transport[2].config.headers = COMMON_HEADERS
    /\ commonHeaders = COMMON_HEADERS

\* C17: under an auth descriptor whose type is none of apikey, bearer and
\* basic, header assembly succeeds, the headers are the declared ones, and
\* the transport call is made.
C17_UnknownAuthType ==
    \A i \in 1..N :
        (/\ prepared[i].called
         /\ AuthOf(i) # NULL
         /\ AuthOf(i).type \notin {"apikey", "bearer", "basic"}) =>
            /\ ~prepared[i].threw
            /\ prepared[i].headers = OwnHeaders(i)
            /\ transport[i].state # "idle"

\* C18: for an empty descriptor list no transport call is made, the batch
\* completes without an exception, no request result is reported, and the
\* summary has zero total, successful and failed requests and average 0.
C18_EmptyBatch ==
    N = 0 =>
        /\ ~ENABLED Dispatch
        /\ transport = <<>>
        /\ pc # "threw"
        /\ pc = "map" => ENABLED StartAwait
        /\ pc = "await" => ENABLED Summarise
        /\ pc = "done" =>
              /\ report = <<>>
              /\ summary.logged
              /\ summary.totalRequests = 0
              /\ summary.successCount = 0
              /\ summary.failureCount = 0
              /\ ~summary.avgTime.nan
              /\ summary.avgTime.num = 0

\* The summary of an empty batch has been reported.
C18_Witness ==
    /\ N = 0
    /\ pc = "done"
    /\ summary.logged
    /\ summary.totalRequests = 0

\* C19: within one execution the start timestamp is taken after the headers
\* were assembled, that is when the transport call is made, and the elapsed
\* time of the result is the time from the transport call to its settling.
C19_IntervalCoversTransportOnly ==
    \A i \in 1..N :
        /\ transport[i].state # "idle" => startTime[i] = transport[i].invokedAt
        /\ (transport[i].state \in {"responded", "threw"} /\ promise[i].value.timeTaken.defined) =>
              promise[i].value.timeTaken =
                  timeTakenText(transport[i].invokedAt, transport[i].settledAt)

\* C20: the result of a request has status "success" exactly when the
\* transport returned a response for it, whatever the response's status code,
\* and then carries that response's status code and body; it has status
\* "error" exactly when header assembly or the transport raised an error.
C20_Classification ==
    \A i \in 1..N :
        promise[i].state = "fulfilled" =>
            /\ promise[i].value.status = "success" <=> transport[i].state = "responded"
            /\ promise[i].value.status = "error" <=> (prepared[i].threw \/ transport[i].state = "threw")
            /\ promise[i].value.status = "success" =>
                  /\ promise[i].value.statusCode = transport[i].reply.status
                  /\ promise[i].value.data = transport[i].reply.data

\* How many times request i appears among the settled promises.
Settlements(i) == Cardinality({n \in 1..Len(order) : order[n] = i})

\* C21: axios is called at most once for a descriptor, once when header
\* assembly succeeded and never when it threw; the promise of a request
\* settles once and keeps its result record, a request that was dispatched is
\* not dispatched again, and a finished batch reports one result per
\* descriptor.
C21_SettledOnce ==
    /\ [](\A i \in 1..N :
            /\ transport[i].calls <= 1
            /\ transport[i].calls = 1 <=> (prepared[i].called /\ ~prepared[i].threw)
            /\ transport[i].calls = 1 <=> transport[i].state # "idle"
            /\ Settlements(i) = (IF promise[i].state = "pending" THEN 0 ELSE 1)
            /\ pc = "done" => Len(report) = N)
    /\ [][\A i \in 1..N :
            /\ promise[i].state # "pending" => promise'[i] = promise[i]
            /\ prepared[i].called => prepared'[i] = prepared[i]
            /\ transport'[i].calls >= transport[i].calls
            /\ transport[i].state \in {"responded", "threw"} => transport'[i] = transport[i]]_vars

\* A finished batch of two requests: header assembly threw for one, which
\* never reached the transport, the other was sent once and failed there, and
\* each settled once.
C21_Witness ==
    /\ pc = "done"
    /\ N = 2
    /\ Len(order) = 2
    /\ \E i, j \in 1..N :
          /\ prepared[i].threw
          /\ transport[i].calls = 0
          /\ transport[j].calls = 1
          /\ transport[j].state = "threw"
          /\ Settlements(i) = 1
          /\ Settlements(j) = 1

====
